---- MODULE Spec2Model ----
(***************************************************************************)
(* A model of pdf-xtract: the page-ordered text collector of the           *)
(* processor (Extract / ExtractAsStream), its document slots, the lazy     *)
(* object resolver of the reader and the construction of the classic       *)
(* cross-reference table.                                                  *)
(***************************************************************************)
EXTENDS Integers, Sequences, FiniteSets, TLC

VARIABLES
    cfg,            \* processor.cfg: ParsingMode, MaxTotalChars, MaxWorkersPerPDF
    numCPU,         \* runtime.NumCPU()
    doc,            \* the opened document: page number -> [status, text]
    op,             \* which entry point runs: "Extract" or "ExtractAsStream"
    pc,             \* position of the calling goroutine
    jobs,           \* the jobs channel (page numbers still queued)
    inflight,       \* pages taken from jobs by a worker and not yet sent to results
    results,        \* the results channel (buffered, capacity total)
    resultsClosed,  \* close(results) has run
    cpc,            \* position of the collector (emitInOrder / streamInOrder)
    col,            \* the collector's locals: pageBuffer, nextPage, out, totalChars, truncated
    reordered,      \* some result reached the collector ahead of nextPage
    streamed,       \* chunks the consumer received from outCh
    outClosed,      \* close(outCh) has run
    sharedTruncated,\* the variable `truncated` captured by the streaming goroutine
    ret,            \* what the call returned: [text, truncated, err]
    maxPDFs,        \* cfg.MaxConcurrentPDFs of a processor shared by several calls
    sem,            \* units of p.sem currently held
    calls,          \* call id -> [kind, pc, workers, streamer, err]
    xref,           \* Reader.xref: slot id+1 -> [ptr, inStream, stream, offset]
    file,           \* what readObject yields at each offset of Reader.f
    cur,            \* the Value the caller holds
    raised,         \* the panic the last call ended in, "" when it returned
    acc,            \* the last call: [op, parent, child, resolved, out, reads]
    sections,       \* the classic xref sections of the file; section 1 is at startxref
    streams,        \* the xref streams of the file, by the offset they lie at
    xpc,            \* position of NewReader on the classic-table path
    table,          \* the table readXrefTable is building
    trailer,        \* the trailer readXrefTable holds
    callee,         \* the library function a caller invokes on its own
    input,          \* what it is invoked on
    output          \* what the invocation has produced so far

procVars == <<cfg, numCPU, doc, op, pc, jobs, inflight, results, resultsClosed,
              cpc, col, reordered, streamed, outClosed, sharedTruncated, ret>>

slotVars == <<maxPDFs, sem, calls>>

readerVars == <<xref, file, cur, raised, acc>>

openVars == <<sections, streams, xpc, table, trailer>>

libVars == <<callee, input, output>>

vars == <<procVars, slotVars, readerVars, openVars, libVars>>

\* What the actions of one part of the model leave alone.
nonProcVars == <<slotVars, readerVars, openVars, libVars>>

nonSlotVars == <<procVars, readerVars, openVars, libVars>>

nonReaderVars == <<procVars, slotVars, openVars, libVars>>

nonOpenVars == <<procVars, slotVars, file, cur, raised, acc, libVars>>

nonLibVars == <<procVars, slotVars, readerVars, openVars>>

-----------------------------------------------------------------------------
(* Bounds of the model *)

MaxPages == 2
MaxTextLen == 2
MaxLimit == 3
MaxCPU == 2
MaxCalls == 3
MaxSlots == 2
MaxObj == 2
MaxSections == 2
MaxEntries == 2
MaxSize == 3
MaxStreams == 3
MaxFileSize == 11
MaxMajor == 3
MaxMinor == 8
MaxData == 6
MaxCols == 2
MaxBuf == 3
MaxInput == 2
MaxTexts == 3
MaxOps == 2
MaxLine == 5
MaxMerge == 2
MaxNumCPU == 4
FreeGen == 65535

-----------------------------------------------------------------------------
(* Sequences of bytes *)

Take(s, n) ==
    SubSeq(s, 1, n)

IsPrefix(s, t) ==
    /\ Len(s) <= Len(t)
    /\ SubSeq(t, 1, Len(s)) = s

RECURSIVE Flatten(_)
Flatten(chunks) ==
    IF chunks = <<>> THEN <<>>
    ELSE Head(chunks) \o Flatten(Tail(chunks))

\* The text of page p when it has n bytes: every byte names its page and
\* its position, so that the order of bytes in an output is observable.
PageText(p, n) ==
    [i \in 1..n |-> 10 * p + i]

-----------------------------------------------------------------------------
(* Configuration *)

ParsingModes == {"strict", "best-effort"}

\* A page extracts to a text ("ok", possibly empty), makes GetPlainText
\* fail ("fail"), or is missing from the page tree ("null").
PageStatuses == {"ok", "fail", "null"}

Pages(n) ==
    { d \in [1..n -> [status : PageStatuses, len : 0..MaxTextLen]] :
        \A p \in 1..n : d[p].status # "ok" => d[p].len = 0 }

Document(d) ==
    [p \in DOMAIN d |-> [status |-> d[p].status, text |-> PageText(p, d[p].len)]]

total ==
    Len(doc)

adjustWorkerCount(maxWorkers, ncpu) ==
    LET m == IF maxWorkers < 1 THEN 1 ELSE maxWorkers
    IN  IF m > ncpu \div 2 THEN ncpu ELSE m

numWorkers ==
    adjustWorkerCount(cfg.MaxWorkersPerPDF, numCPU)

-----------------------------------------------------------------------------
(* Page extraction by the workers *)

\* StrictExtractor.ExtractPage / BestEffortExtractor.ExtractPage: [text, err]
ExtractPage(mode, page) ==
    IF page.status = "fail"
    THEN IF mode = "strict"
         THEN [text |-> <<>>, err |-> TRUE]
         ELSE [text |-> <<>>, err |-> FALSE]
    ELSE [text |-> page.text, err |-> FALSE]

\* The outcome of ExtractPage depends on the page alone, so every attempt
\* of the retry loop ends as the first one does.
RECURSIVE extractPageWithRetries(_, _, _, _)
extractPageWithRetries(mode, page, attempt, maxRetries) ==
    LET r == ExtractPage(mode, page)
    IN  IF r.err /\ attempt < maxRetries
        THEN extractPageWithRetries(mode, page, attempt + 1, maxRetries)
        ELSE r

\* The pageResult a worker sends for job i.
WorkerResult(i) ==
    IF doc[i].status = "null"
    THEN [index |-> i, text |-> <<>>, err |-> TRUE]
    ELSE LET r == extractPageWithRetries(cfg.ParsingMode, doc[i], 0, cfg.MaxRetries)
         IN  [index |-> i, text |-> r.text, err |-> r.err]

-----------------------------------------------------------------------------
(* The collector: emitInOrder and streamInOrder *)

NoText == <<>>

InitCol ==
    [buf |-> <<>>, next |-> 1, out |-> <<>>, totalChars |-> 0, trunc |-> FALSE]

\* pageBuffer[res.index] = res.text
StoreResult(buf, res) ==
    [k \in DOMAIN buf \cup {res.index} |-> IF k = res.index THEN res.text ELSE buf[k]]

\* delete(pageBuffer, nextPage)
DeletePage(buf, n) ==
    [k \in DOMAIN buf \ {n} |-> buf[k]]

ReadyTextReversed(buf, n) ==
    IF (Len(doc) + 1 - n) \in DOMAIN buf THEN buf[Len(doc) + 1 - n] ELSE NoText

\* text, ok := pageBuffer[nextPage]; the empty text when !ok
ReadyText(buf, n) ==
    IF n \in DOMAIN buf THEN buf[n] ELSE NoText

TruncateNone(text, remaining) ==
    text

\* text[:remaining]
Truncate(text, remaining) ==
    Take(text, remaining)

\* The inner loop of emitInOrder, run to its break.
RECURSIVE EmitLoop(_, _)
EmitLoop(c, limit) ==
    LET text == ReadyText(c.buf, c.next)
        remaining == limit - Len(c.out)
        written(t) == [c EXCEPT !.out = c.out \o t,
                                !.buf = DeletePage(c.buf, c.next),
                                !.next = c.next + 1]
    IN  IF text = NoText THEN c
        ELSE IF limit > 0
        THEN IF remaining <= 0 THEN [c EXCEPT !.trunc = TRUE]
             ELSE IF Len(text) > remaining
             THEN [written(Truncate(text, remaining)) EXCEPT !.trunc = TRUE]
             ELSE EmitLoop(written(text), limit)
        ELSE EmitLoop(written(text), limit)

\* One iteration of the inner loop of streamInOrder: what it does
\* ("break", "send", "return") and the locals after it.
StreamStep(c, limit) ==
    LET text == ReadyText(c.buf, c.next)
        remaining == limit - c.totalChars
        sent(t) == [c EXCEPT !.totalChars = c.totalChars + Len(t),
                             !.buf = DeletePage(c.buf, c.next),
                             !.next = c.next + 1]
    IN  IF text = NoText THEN [act |-> "break", chunk |-> NoText, c |-> c]
        ELSE IF limit > 0 /\ remaining <= 0
        THEN [act |-> "return", chunk |-> NoText, c |-> [c EXCEPT !.trunc = TRUE]]
        ELSE IF limit > 0 /\ Len(text) > remaining
        THEN [act |-> "return", chunk |-> Truncate(text, remaining),
              c |-> [c EXCEPT !.totalChars = c.totalChars + remaining, !.trunc = TRUE]]
        ELSE [act |-> "send", chunk |-> text, c |-> sent(text)]

-----------------------------------------------------------------------------
(* The parts of the model at rest *)

IdleProc ==
    /\ cfg = [ParsingMode |-> "best-effort", MaxTotalChars |-> 0,
              MaxWorkersPerPDF |-> 1, MaxRetries |-> 1]
    /\ numCPU = 1
    /\ doc = <<>>
    /\ op = "Extract"
    /\ pc = "start"
    /\ jobs = <<>>
    /\ inflight = {}
    /\ results = <<>>
    /\ resultsClosed = FALSE
    /\ cpc = "idle"
    /\ col = InitCol
    /\ reordered = FALSE
    /\ streamed = <<>>
    /\ outClosed = FALSE
    /\ sharedTruncated = FALSE
    /\ ret = [text |-> <<>>, truncated |-> FALSE, err |-> FALSE]

IdleSlots ==
    /\ maxPDFs = 1
    /\ sem = 0
    /\ calls = <<>>

IdleReader ==
    /\ xref = <<>>
    /\ file = <<>>
    /\ cur = <<>>
    /\ raised = ""
    /\ acc = <<>>

IdleOpen ==
    /\ sections = <<>>
    /\ streams = <<>>
    /\ xpc = "idle"
    /\ table = <<>>
    /\ trailer = <<>>

IdleLib ==
    /\ callee = ""
    /\ input = <<>>
    /\ output = <<>>

-----------------------------------------------------------------------------
(* Initial state: a processor, a document and a call about to start *)

Init ==
    /\ cfg \in [ParsingMode : ParsingModes, MaxTotalChars : 0..MaxLimit,
                MaxWorkersPerPDF : 1..MaxCPU, MaxRetries : {1}]
    /\ numCPU = MaxCPU
    /\ \E n \in 0..MaxPages : \E d \in Pages(n) : doc = Document(d)
    /\ op \in {"Extract", "ExtractAsStream"}
    /\ pc = "start"
    /\ jobs = <<>>
    /\ inflight = {}
    /\ results = <<>>
    /\ resultsClosed = FALSE
    /\ cpc = "idle"
    /\ col = InitCol
    /\ reordered = FALSE
    /\ streamed = <<>>
    /\ outClosed = FALSE
    /\ sharedTruncated = FALSE
    /\ ret = [text |-> <<>>, truncated |-> FALSE, err |-> FALSE]
    /\ IdleSlots
    /\ IdleReader
    /\ IdleOpen
    /\ IdleLib

-----------------------------------------------------------------------------
(* Actions *)

\* Extract / ExtractAsStream up to close(jobs): the slot is taken, the file
\* opened, the workers started and every page number queued.  A document
\* without pages returns at once.
Begin ==
    /\ pc = "start"
    /\ IF total = 0
       THEN /\ pc' = "returned"
            /\ outClosed' = (op = "ExtractAsStream")
            /\ UNCHANGED <<jobs, cpc>>
       ELSE /\ pc' = "running"
            /\ jobs' = [i \in 1..total |-> i]
            /\ cpc' = "recv"
            /\ UNCHANGED outClosed
    /\ UNCHANGED <<cfg, numCPU, doc, op, inflight, results, resultsClosed, col,
                   reordered, streamed, sharedTruncated, ret>>
    /\ UNCHANGED nonProcVars

\* for i := range jobs, in one of the numWorkers worker goroutines
WorkerTake ==
    /\ Cardinality(inflight) < numWorkers
    /\ jobs # <<>>
    /\ inflight' = inflight \cup {Head(jobs)}
    /\ jobs' = Tail(jobs)
    /\ UNCHANGED <<cfg, numCPU, doc, op, pc, results, resultsClosed, cpc, col,
                   reordered, streamed, outClosed, sharedTruncated, ret>>
    /\ UNCHANGED nonProcVars

\* results <- pageResult{i, text, err}
WorkerSend(i) ==
    /\ i \in inflight
    /\ results' = Append(results, WorkerResult(i))
    /\ inflight' = inflight \ {i}
    /\ UNCHANGED <<cfg, numCPU, doc, op, pc, jobs, resultsClosed, cpc, col,
                   reordered, streamed, outClosed, sharedTruncated, ret>>
    /\ UNCHANGED nonProcVars

\* wg.Wait(); close(results)
CloseResults ==
    /\ pc # "start"
    /\ total > 0
    /\ ~resultsClosed
    /\ jobs = <<>>
    /\ inflight = {}
    /\ resultsClosed' = TRUE
    /\ UNCHANGED <<cfg, numCPU, doc, op, pc, jobs, inflight, results, cpc, col,
                   reordered, streamed, outClosed, sharedTruncated, ret>>
    /\ UNCHANGED nonProcVars

\* emitInOrder: one iteration of `for res := range results`, and the return
\* of Extract when the iteration leaves the loop.
EmitRecv ==
    /\ op = "Extract"
    /\ cpc = "recv"
    /\ results # <<>>
    /\ LET res == Head(results)
           c == EmitLoop([col EXCEPT !.buf = StoreResult(col.buf, res)],
                         cfg.MaxTotalChars)
       IN  /\ results' = Tail(results)
           /\ reordered' = (reordered \/ res.index # col.next)
           /\ IF res.err /\ cfg.ParsingMode = "strict"
              THEN /\ ret' = [text |-> <<>>, truncated |-> FALSE, err |-> TRUE]
                   /\ cpc' = "done"
                   /\ pc' = "returned"
                   /\ UNCHANGED col
              ELSE /\ col' = c
                   /\ IF c.trunc
                      THEN /\ ret' = [text |-> c.out, truncated |-> TRUE, err |-> FALSE]
                           /\ cpc' = "done"
                           /\ pc' = "returned"
                      ELSE UNCHANGED <<ret, cpc, pc>>
    /\ UNCHANGED <<cfg, numCPU, doc, op, jobs, inflight, resultsClosed,
                   streamed, outClosed, sharedTruncated>>
    /\ UNCHANGED nonProcVars

\* emitInOrder: results is closed and drained; Extract returns.
EmitEnd ==
    /\ op = "Extract"
    /\ cpc = "recv"
    /\ results = <<>>
    /\ resultsClosed
    /\ ret' = [text |-> col.out, truncated |-> col.trunc, err |-> FALSE]
    /\ cpc' = "done"
    /\ pc' = "returned"
    /\ UNCHANGED <<cfg, numCPU, doc, op, jobs, inflight, results, resultsClosed,
                   col, reordered, streamed, outClosed, sharedTruncated>>
    /\ UNCHANGED nonProcVars

\* ExtractAsStream returns outCh and the current value of `truncated`
\* right after starting the streaming goroutine.
ReturnStream ==
    /\ op = "ExtractAsStream"
    /\ pc = "running"
    /\ ret' = [text |-> <<>>, truncated |-> sharedTruncated, err |-> FALSE]
    /\ pc' = "returned"
    /\ UNCHANGED <<cfg, numCPU, doc, op, jobs, inflight, results, resultsClosed,
                   cpc, col, reordered, streamed, outClosed, sharedTruncated>>
    /\ UNCHANGED nonProcVars

\* streamInOrder: receive one result.
StreamRecv ==
    /\ op = "ExtractAsStream"
    /\ cpc = "recv"
    /\ results # <<>>
    /\ LET res == Head(results)
       IN  /\ results' = Tail(results)
           /\ reordered' = (reordered \/ res.index # col.next)
           /\ IF res.err /\ cfg.ParsingMode = "strict"
              THEN /\ cpc' = "fin"
                   /\ col' = [col EXCEPT !.trunc = FALSE]
              ELSE /\ cpc' = "emit"
                   /\ col' = [col EXCEPT !.buf = StoreResult(col.buf, res)]
    /\ UNCHANGED <<cfg, numCPU, doc, op, pc, jobs, inflight, resultsClosed,
                   streamed, outClosed, sharedTruncated, ret>>
    /\ UNCHANGED nonProcVars

\* streamInOrder: one iteration of the inner loop.  A send on the
\* unbuffered outCh completes only with a receiver, and the consumer holds
\* outCh only once ExtractAsStream has returned.
StreamEmit ==
    /\ op = "ExtractAsStream"
    /\ cpc = "emit"
    /\ LET s == StreamStep(col, cfg.MaxTotalChars)
       IN  /\ s.chunk # NoText => pc = "returned"
           /\ col' = s.c
           /\ streamed' = IF s.chunk # NoText THEN Append(streamed, s.chunk) ELSE streamed
           /\ cpc' = CASE s.act = "break" -> "recv"
                       [] s.act = "send" -> "emit"
                       [] s.act = "return" -> "fin"
    /\ UNCHANGED <<cfg, numCPU, doc, op, pc, jobs, inflight, results, resultsClosed,
                   reordered, outClosed, sharedTruncated, ret>>
    /\ UNCHANGED nonProcVars

\* streamInOrder: results is closed and drained.
StreamEnd ==
    /\ op = "ExtractAsStream"
    /\ cpc = "recv"
    /\ results = <<>>
    /\ resultsClosed
    /\ cpc' = "fin"
    /\ UNCHANGED <<cfg, numCPU, doc, op, pc, jobs, inflight, results, resultsClosed,
                   col, reordered, streamed, outClosed, sharedTruncated, ret>>
    /\ UNCHANGED nonProcVars

\* The streaming goroutine stores the result of streamInOrder in
\* `truncated` and closes outCh.
StreamFinish ==
    /\ cpc = "fin"
    /\ sharedTruncated' = col.trunc
    /\ outClosed' = TRUE
    /\ cpc' = "done"
    /\ UNCHANGED <<cfg, numCPU, doc, op, pc, jobs, inflight, results, resultsClosed,
                   col, reordered, streamed, ret>>
    /\ UNCHANGED nonProcVars

Next ==
    \/ Begin
    \/ WorkerTake
    \/ \E i \in 1..MaxPages : WorkerSend(i)
    \/ CloseResults
    \/ EmitRecv
    \/ EmitEnd
    \/ ReturnStream
    \/ StreamRecv
    \/ StreamEmit
    \/ StreamEnd
    \/ StreamFinish

Spec ==
    Init /\ [][Next]_vars

-----------------------------------------------------------------------------
(* The document slots of one processor shared by several calls *)

Calls ==
    1..MaxCalls

InitSlots ==
    /\ maxPDFs \in 1..MaxSlots
    /\ sem = 0
    /\ calls \in [Calls -> [kind : {"Extract", "ExtractAsStream"}, pc : {"idle"},
                            workers : {FALSE}, streamer : {FALSE}, err : {FALSE}]]
    /\ IdleProc
    /\ IdleReader
    /\ IdleOpen
    /\ IdleLib

\* A caller invokes Extract or ExtractAsStream and reaches acquireSlot.
Invoke(c) ==
    /\ calls[c].pc = "idle"
    /\ calls' = [calls EXCEPT ![c].pc = "acquire"]
    /\ UNCHANGED <<maxPDFs, sem>>
    /\ UNCHANGED nonSlotVars

\* acquireSlot: p.sem.Acquire(ctx, 1) succeeds when a unit is free.
acquireSlot(c) ==
    /\ calls[c].pc = "acquire"
    /\ sem < maxPDFs
    /\ sem' = sem + 1
    /\ calls' = [calls EXCEPT ![c].pc = "open"]
    /\ UNCHANGED maxPDFs
    /\ UNCHANGED nonSlotVars

\* acquireSlot: the context is done before a unit is free; the call
\* returns the error and holds no slot.
acquireCancelled(c) ==
    /\ calls[c].pc = "acquire"
    /\ calls' = [calls EXCEPT ![c].pc = "returned", ![c].err = TRUE]
    /\ UNCHANGED <<maxPDFs, sem>>
    /\ UNCHANGED nonSlotVars

\* Open fails, or the document has no page: the call returns and the
\* deferred p.sem.Release(1) runs.
ReturnEarly(c) ==
    /\ calls[c].pc = "open"
    /\ \E e \in BOOLEAN : calls' = [calls EXCEPT ![c].pc = "returned", ![c].err = e]
    /\ sem' = sem - 1
    /\ UNCHANGED maxPDFs
    /\ UNCHANGED nonSlotVars

\* startWorkers, feedJobs, close(jobs); ExtractAsStream also starts its
\* streaming goroutine.
StartWorkers(c) ==
    /\ calls[c].pc = "open"
    /\ calls' = [calls EXCEPT ![c].pc = "run", ![c].workers = TRUE,
                              ![c].streamer = (calls[c].kind = "ExtractAsStream")]
    /\ UNCHANGED <<maxPDFs, sem>>
    /\ UNCHANGED nonSlotVars

\* The page workers of call c have drained jobs and ended.
WorkersEnd(c) ==
    /\ calls[c].workers
    /\ calls' = [calls EXCEPT ![c].workers = FALSE]
    /\ UNCHANGED <<maxPDFs, sem>>
    /\ UNCHANGED nonSlotVars

\* Extract: emitInOrder has returned (results drained, truncation, or a
\* strict-mode error); Extract returns and the deferred Release runs.
ExtractReturns(c) ==
    /\ calls[c].kind = "Extract"
    /\ calls[c].pc = "run"
    /\ \E e \in BOOLEAN : calls' = [calls EXCEPT ![c].pc = "returned", ![c].err = e]
    /\ sem' = sem - 1
    /\ UNCHANGED maxPDFs
    /\ UNCHANGED nonSlotVars

\* ExtractAsStream returns outCh right after `go func()`; the deferred
\* Release runs at this return.
StreamReturns(c) ==
    /\ calls[c].kind = "ExtractAsStream"
    /\ calls[c].pc = "run"
    /\ calls' = [calls EXCEPT ![c].pc = "returned"]
    /\ sem' = sem - 1
    /\ UNCHANGED maxPDFs
    /\ UNCHANGED nonSlotVars

\* The streaming goroutine leaves streamInOrder and closes outCh.  It
\* sends on outCh only to a consumer, who holds outCh after the return;
\* without a send it may end earlier.
StreamerEnds(c) ==
    /\ calls[c].streamer
    /\ calls' = [calls EXCEPT ![c].streamer = FALSE]
    /\ UNCHANGED <<maxPDFs, sem>>
    /\ UNCHANGED nonSlotVars

NextSlots ==
    \/ \E c \in Calls : Invoke(c)
    \/ \E c \in Calls : acquireSlot(c)
    \/ \E c \in Calls : acquireCancelled(c)
    \/ \E c \in Calls : ReturnEarly(c)
    \/ \E c \in Calls : StartWorkers(c)
    \/ \E c \in Calls : WorkersEnd(c)
    \/ \E c \in Calls : ExtractReturns(c)
    \/ \E c \in Calls : StreamReturns(c)
    \/ \E c \in Calls : StreamerEnds(c)

SpecSlots ==
    InitSlots /\ [][NextSlots]_vars

\* Call c is processing a document: it holds the file open between
\* acquireSlot and its return, or its page workers or streaming goroutine
\* are still running.
Processing(c) ==
    \/ calls[c].pc \in {"open", "run"}
    \/ calls[c].kind = "ExtractAsStream" /\ (calls[c].workers \/ calls[c].streamer)

-----------------------------------------------------------------------------
(* PDF objects, Values and the reader's resolver *)

objptr(id, gen) ==
    [id |-> id, gen |-> gen]

NoDict ==
    [key \in {} |-> 0]

\* An object as the lexer hands it over: k is its Go type, n its number
\* (object number for an objptr), g a generation, s its characters, d a
\* dictionary (a stream's header), a the elements of an array, ix the
\* (object number, object) pairs a decoded object stream lists.
Object(k, n, g, s, d, a, ix) ==
    [k |-> k, n |-> n, g |-> g, s |-> s, d |-> d, a |-> a, ix |-> ix]

nil == Object("nil", 0, 0, "", NoDict, <<>>, <<>>)
BoolObj(b) == Object("bool", IF b THEN 1 ELSE 0, 0, "", NoDict, <<>>, <<>>)
IntObj(n) == Object("int64", n, 0, "", NoDict, <<>>, <<>>)
RealObj(n) == Object("float64", n, 0, "", NoDict, <<>>, <<>>)
StrObj(str) == Object("string", 0, 0, str, NoDict, <<>>, <<>>)
NameObj(str) == Object("name", 0, 0, str, NoDict, <<>>, <<>>)
DictObj(d) == Object("dict", 0, 0, "", d, <<>>, <<>>)
ArrayObj(a) == Object("array", 0, 0, "", NoDict, a, <<>>)
StreamObj(hdr, ix) == Object("stream", 0, 0, "", hdr, <<>>, ix)
PtrObj(ptr) == Object("objptr", ptr.id, ptr.gen, "", NoDict, <<>>, <<>>)

\* What readObject yields at an offset: an object definition or not.
objdef(ptr, obj) == [k |-> "objdef", ptr |-> ptr, obj |-> obj]
NotADef == [k |-> "other", ptr |-> objptr(0, 0), obj |-> nil]

\* Value{r, ptr, data}; the zero Value is Value{}.
Value(ptr, data) == [ptr |-> ptr, data |-> data]
ZeroValue == Value(objptr(0, 0), nil)

\* The outcome of a call that may panic, and the reads of r.f it made.
Ok(v, reads) == [panic |-> "", val |-> v, reads |-> reads]
Raise(msg, reads) == [panic |-> msg, val |-> ZeroValue, reads |-> reads]
After(reads, r) == [r EXCEPT !.reads = @ + reads]

Kind(v) ==
    CASE v.data.k = "bool" -> "Bool"
      [] v.data.k = "int64" -> "Integer"
      [] v.data.k = "float64" -> "Real"
      [] v.data.k = "string" -> "String"
      [] v.data.k = "name" -> "Name"
      [] v.data.k = "dict" -> "Dict"
      [] v.data.k = "array" -> "Array"
      [] v.data.k = "stream" -> "Stream"
      [] OTHER -> "Null"

Bool(v) == IF v.data.k = "bool" THEN v.data.n = 1 ELSE FALSE
Int64(v) == IF v.data.k = "int64" THEN v.data.n ELSE 0
Float64(v) == IF v.data.k \in {"float64", "int64"} THEN v.data.n ELSE 0
RawString(v) == IF v.data.k = "string" THEN v.data.s ELSE ""
Name(v) == IF v.data.k = "name" THEN v.data.s ELSE ""
\* Value.Len
ValueLen(v) == IF v.data.k = "array" THEN Len(v.data.a) ELSE 0

\* Text: the string after its decoding to UTF-8, "" for another kind.
Text(v) == IF v.data.k = "string" THEN <<"utf-8", v.data.s>> ELSE <<"utf-8", "">>

\* Keys: the keys (the code returns them sorted; nil for another kind).
Keys(v) == IF v.data.k \in {"dict", "stream"} THEN DOMAIN v.data.d ELSE {}

\* x[name(key)]: nil for a missing key
Lookup(d, key) == IF key \in DOMAIN d THEN d[key] ELSE nil

\* xref.ptr != ptr
SlotMatchesId(e, ptr) == e.ptr.id = ptr.id

SlotMatches(e, ptr) == e.ptr = ptr

\* The type switch that ends resolve.
WrapNoString(parent, x, reads) ==
    IF x.k \in {"nil", "bool", "int64", "float64", "name", "dict", "array", "stream"}
    THEN Ok(Value(parent, x), reads)
    ELSE Raise("unexpected value type in resolve", reads)

Wrap(parent, x, reads) ==
    IF x.k \in {"nil", "bool", "int64", "float64", "name", "dict", "array", "stream", "string"}
    THEN Ok(Value(parent, x), reads)
    ELSE Raise("unexpected value type in resolve", reads)

\* The first of the n pairs of an object stream that names object id; 0 when none.
FindInStream(ix, n, id) ==
    LET hits == { i \in 1..Len(ix) : i <= n /\ ix[i].id = id }
    IN  IF hits = {} THEN 0 ELSE CHOOSE i \in hits : \A j \in hits : i <= j

\* A file in which no reference leads back to itself needs a nesting no
\* deeper than the number of objects; a deeper one never ends in the code.
Fuel == MaxObj + 2

RECURSIVE resolve(_, _, _)
RECURSIVE Key(_, _, _)
RECURSIVE Search(_, _, _)

resolve(parent, x, fuel) ==
    IF x.k # "objptr" THEN Wrap(parent, x, 0)
    ELSE LET ptr == objptr(x.n, x.g)
         IN  IF ptr.id >= Len(xref) THEN Ok(ZeroValue, 0)
             ELSE LET e == xref[ptr.id + 1]
                  IN  IF ~SlotMatches(e, ptr) \/ (~e.inStream /\ e.offset = 0)
                      THEN Ok(ZeroValue, 0)
                      ELSE IF e.inStream
                      THEN IF fuel = 0 THEN Raise("never ends", 0)
                           ELSE LET strm == resolve(parent, PtrObj(e.stream), fuel - 1)
                                IN  IF strm.panic # "" THEN strm
                                    ELSE After(strm.reads, Search(strm.val, ptr, fuel - 1))
                      ELSE LET obj == file[e.offset]
                           IN  IF obj.k # "objdef"
                               THEN Raise("found other instead of objdef", 1)
                               ELSE IF obj.ptr # ptr
                               THEN Raise("found another object", 1)
                               ELSE Wrap(ptr, obj.obj, 1)

Key(v, key, fuel) ==
    IF v.data.k \notin {"dict", "stream"} THEN Ok(ZeroValue, 0)
    ELSE resolve(v.ptr, Lookup(v.data.d, key), fuel)

\* The Search loop of resolve, from the container strm on.  The streams of
\* the model carry no Filter, so strm.Reader() hands over their bytes.
Search(strm, ptr, fuel) ==
    IF Kind(strm) # "Stream" THEN Raise("not a stream", 0)
    ELSE LET type == Key(strm, "Type", fuel)
         IN  IF type.panic # "" THEN type
             ELSE IF Name(type.val) # "ObjStm"
             THEN Raise("not an object stream", type.reads)
             ELSE LET n == After(type.reads, Key(strm, "N", fuel))
                  IN  IF n.panic # "" THEN n
                      ELSE LET first == After(n.reads, Key(strm, "First", fuel))
                           IN  IF first.panic # "" THEN first
                               ELSE IF Int64(first.val) = 0
                               THEN Raise("missing First", first.reads)
                               ELSE LET hit == FindInStream(strm.data.ix, Int64(n.val), ptr.id)
                                        ext == After(first.reads + 1, Key(strm, "Extends", fuel))
                                    IN  IF hit # 0
                                        THEN Wrap(ptr, strm.data.ix[hit].obj, first.reads + 1)
                                        ELSE IF ext.panic # "" THEN ext
                                        ELSE IF Kind(ext.val) # "Stream"
                                        THEN Raise("cannot find object in stream", ext.reads)
                                        ELSE IF fuel = 0 THEN Raise("never ends", ext.reads)
                                        ELSE After(ext.reads, Search(ext.val, ptr, fuel - 1))

Index(v, i, fuel) ==
    IF v.data.k # "array" \/ i < 0 \/ i >= Len(v.data.a) THEN Ok(ZeroValue, 0)
    ELSE resolve(v.ptr, v.data.a[i + 1], fuel)

-----------------------------------------------------------------------------
(* A reader after open, and a caller walking its objects *)

\* Offset 0 marks a free entry; offsets 1 and 2 are where the file of the
\* model has its objects.
Offsets == 0..2
Gens == 0..1

\* The slots object number id can have: unset, uncompressed at an offset
\* (0 for a free entry), or compressed in the object stream of some object.
Slots(id) ==
    {[ptr |-> objptr(0, 0), inStream |-> FALSE, stream |-> objptr(0, 0), offset |-> 0]}
    \cup {[ptr |-> objptr(id, 0), inStream |-> FALSE, stream |-> objptr(0, 0), offset |-> o] :
            o \in Offsets}
    \cup {[ptr |-> objptr(id, 0), inStream |-> TRUE, stream |-> objptr(j, 0), offset |-> 0] :
            j \in 1..2}

\* The tables of n slots; slot 0 is unset.
RECURSIVE Tables(_)
Tables(n) ==
    IF n = 1 THEN {<<CHOOSE e \in Slots(0) : e.ptr = objptr(0, 0) /\ e.offset = 0>>}
    ELSE {Append(t, e) : t \in Tables(n - 1), e \in Slots(n - 1)}

\* What offset 1 can hold: the definition of object 1.
Bodies ==
    { DictObj([K |-> PtrObj(objptr(2, 0)), T |-> StrObj("t"), U |-> PtrObj(objptr(2, 1))]),
      ArrayObj(<<PtrObj(objptr(2, 0)), IntObj(7)>>),
      PtrObj(objptr(2, 0)),
      RealObj(7) }

ObjStmHdr(type, first) ==
    [Type |-> NameObj(type), N |-> IntObj(1), First |-> IntObj(first)]

\* What the definition of object 2 can be: an object stream or something a
\* compressed entry must not name.
Containers ==
    { StreamObj(ObjStmHdr("ObjStm", 1), <<[id |-> 1, obj |-> DictObj([K |-> BoolObj(TRUE)])]>>),
      StreamObj(ObjStmHdr("XObject", 1), <<[id |-> 1, obj |-> IntObj(7)]>>),
      StreamObj(ObjStmHdr("ObjStm", 0), <<[id |-> 1, obj |-> IntObj(7)]>>),
      StreamObj(ObjStmHdr("ObjStm", 1), <<[id |-> 0, obj |-> IntObj(7)]>>),
      StreamObj([Type |-> NameObj("ObjStm"), N |-> IntObj(1), First |-> IntObj(1),
                 Extends |-> PtrObj(objptr(2, 0))], <<[id |-> 0, obj |-> IntObj(7)]>>),
      DictObj(ObjStmHdr("ObjStm", 1)) }

\* Offset 2 holds the definition of object 2 or no definition at all.
Files ==
    { <<objdef(objptr(1, 0), b), c>> :
        b \in Bodies, c \in {objdef(objptr(2, 0), x) : x \in Containers} \cup {NotADef} }

\* The entries a trailer can have.
TrailerEntries ==
    {nil, IntObj(7), NameObj("Catalog")}
    \cup {PtrObj(objptr(id, g)) : id \in 0..(MaxObj + 1), g \in Gens}

KeyNames == {"K", "T", "U", "Type", "Extends", "Root"}

Accessors == {"Bool", "Int64", "Float64", "RawString", "Text", "Name", "Keys", "Len", "Kind"}

NoCall ==
    [op |-> "none", parent |-> objptr(0, 0), child |-> nil, resolved |-> FALSE,
     out |-> <<>>, reads |-> 0]

InitReader ==
    /\ xref \in Tables(MaxObj + 1)
    /\ file \in Files
    /\ cur = ZeroValue
    /\ raised = ""
    /\ acc = NoCall
    /\ IdleProc
    /\ IdleSlots
    /\ IdleOpen
    /\ IdleLib

\* The caller takes what a resolving accessor returned; a panic leaves it
\* with the Value it had.
Returned(name, parent, child, r) ==
    /\ cur' = IF r.panic = "" THEN r.val ELSE cur
    /\ raised' = r.panic
    /\ acc' = [op |-> name, parent |-> parent, child |-> child, resolved |-> TRUE,
               out |-> <<>>, reads |-> r.reads]

\* r.Trailer().Key(k) for a trailer whose entry under k is x: where the
\* caller's walk over the objects starts.
TrailerKey(x) ==
    /\ acc.op = "none"
    /\ Returned("Key", objptr(0, 0), x, resolve(objptr(0, 0), x, Fuel))
    /\ UNCHANGED <<xref, file>>
    /\ UNCHANGED nonReaderVars

\* cur.Key(key)
CallKey(key) ==
    /\ IF cur.data.k \in {"dict", "stream"}
       THEN Returned("Key", cur.ptr, Lookup(cur.data.d, key), Key(cur, key, Fuel))
       ELSE /\ cur' = ZeroValue
            /\ raised' = ""
            /\ acc' = [NoCall EXCEPT !.op = "Key"]
    /\ UNCHANGED <<xref, file>>
    /\ UNCHANGED nonReaderVars

\* cur.Index(i)
CallIndex(i) ==
    /\ IF cur.data.k = "array" /\ i >= 0 /\ i < Len(cur.data.a)
       THEN Returned("Index", cur.ptr, cur.data.a[i + 1], Index(cur, i, Fuel))
       ELSE /\ cur' = ZeroValue
            /\ raised' = ""
            /\ acc' = [NoCall EXCEPT !.op = "Index"]
    /\ UNCHANGED <<xref, file>>
    /\ UNCHANGED nonReaderVars

\* One of the accessors that return Go values.
CallAccessor(a) ==
    /\ acc' = [NoCall EXCEPT !.op = a,
                 !.out = CASE a = "Bool" -> Bool(cur)
                           [] a = "Int64" -> Int64(cur)
                           [] a = "Float64" -> Float64(cur)
                           [] a = "RawString" -> RawString(cur)
                           [] a = "Text" -> Text(cur)
                           [] a = "Name" -> Name(cur)
                           [] a = "Keys" -> Keys(cur)
                           [] a = "Len" -> ValueLen(cur)
                           [] a = "Kind" -> Kind(cur)]
    /\ raised' = ""
    /\ UNCHANGED <<xref, file, cur>>
    /\ UNCHANGED nonReaderVars

NextReader ==
    \/ \E x \in TrailerEntries : TrailerKey(x)
    \/ \E key \in KeyNames : CallKey(key)
    \/ \E i \in -1..2 : CallIndex(i)
    \/ \E a \in Accessors : CallAccessor(a)

SpecReader ==
    InitReader /\ [][NextReader]_vars

\* resolve answers the reference x with the zero Value before any read.
NullCase(x) ==
    \/ x.n >= Len(xref)
    \/ x.n < Len(xref) /\ ( \/ xref[x.n + 1].ptr # objptr(x.n, x.g)
                            \/ ~xref[x.n + 1].inStream /\ xref[x.n + 1].offset = 0 )

-----------------------------------------------------------------------------
(* Opening a file through the classic-table path *)

\* xref{}: an unset slot
ZeroXref ==
    [ptr |-> objptr(0, 0), inStream |-> FALSE, stream |-> objptr(0, 0), offset |-> 0]

\* A trailer without the key has it as Absent (Size) or 0 (Prev).
Absent == -1

\* The entries of a section's one subsection: in use throughout, or free
\* in its first entry.
AllocSeqs ==
    UNION { { [i \in 1..n |-> "n"], [i \in 1..n |-> IF i = 1 THEN "f" ELSE "n"] } :
            n \in 1..MaxEntries }

\* Section k lies at offset k; offset MaxSections + 1 does not start with
\* the keyword xref.
SectionsOfFile ==
    [1..MaxSections -> [start : 0..1, allocs : AllocSeqs,
                        Size : {Absent} \cup 1..MaxSize, Prev : 0..(MaxSections + 1),
                        XRefStm : {0}]]

\* The file offset the i-th entry of section k gives for its object.
EntryOffset(k, i) ==
    10 * k + i

ensureLen(s, n) ==
    IF n <= Len(s) THEN s
    ELSE s \o [i \in 1..(n - Len(s)) |-> ZeroXref]

setIfEmpty(t, x, val) ==
    IF x < 0 THEN t
    ELSE LET grown == ensureLen(t, x + 1)
         IN  IF grown[x + 1].ptr = objptr(0, 0)
             THEN [grown EXCEPT ![x + 1] = val]
             ELSE grown

\* readXrefTableData over the entries i.. of section k
RECURSIVE readXrefTableData(_, _, _)
readXrefTableData(k, i, t) ==
    LET sct == sections[k]
        idx == sct.start + (i - 1)
    IN  IF i > Len(sct.allocs) THEN t
        ELSE IF sct.allocs[i] = "n"
        THEN readXrefTableData(k, i + 1,
                 setIfEmpty(t, idx, [ptr |-> objptr(idx, 0), inStream |-> FALSE,
                                     stream |-> objptr(0, 0), offset |-> EntryOffset(k, i)]))
        ELSE readXrefTableData(k, i + 1, ensureLen(t, idx + 1))

\* parseXrefTableAndTrailer on the section at offset k: the table and the
\* trailer dictionary that follows it.
parseXrefTableAndTrailer(k, t) ==
    [table |-> readXrefTableData(k, 1, t),
     trailer |-> [Size |-> sections[k].Size, Prev |-> sections[k].Prev,
                  XRefStm |-> sections[k].XRefStm, at |-> k]]

\* What the i-th record of the xref stream at offset j says of object x.
\* A record is free (type 0), uncompressed at an offset where an object
\* starts ("n") or where none is found even nearby ("lost"), or compressed
\* in the object stream 1, as its first object ("c") or as its second
\* ("c1").  The offset field of a compressed entry is the index of the
\* object in its object stream.
StreamEntryOffset(j, i) ==
    100 * j + i

StreamEntry(j, i, x) ==
    LET kind == streams[j].kinds[i]
    IN  IF kind = "free"
        THEN [ptr |-> objptr(0, FreeGen), inStream |-> FALSE, stream |-> objptr(0, 0), offset |-> 0]
        ELSE IF kind = "c"
        THEN [ptr |-> objptr(x, 0), inStream |-> TRUE, stream |-> objptr(1, 0), offset |-> 0]
        ELSE IF kind = "c1"
        THEN [ptr |-> objptr(x, 0), inStream |-> TRUE, stream |-> objptr(1, 0), offset |-> 1]
        ELSE [ptr |-> objptr(x, 0), inStream |-> FALSE, stream |-> objptr(0, 0),
              offset |-> StreamEntryOffset(j, i)]

\* readXrefStreamData from record i on, for a stream whose Index is
\* [start, number of records].  The streams of the model list no object at
\* or beyond their Size, so the table never has to grow here.
RECURSIVE readXrefStreamData(_, _, _)
readXrefStreamData(j, i, t) ==
    LET x == streams[j].start + (i - 1)
    IN  IF i > Len(streams[j].kinds) THEN t
        ELSE IF t[x + 1].ptr # objptr(0, 0)
        THEN readXrefStreamData(j, i + 1, t)
        ELSE readXrefStreamData(j, i + 1, [t EXCEPT ![x + 1] = StreamEntry(j, i, x)])

\* parseXrefStreamObject succeeds at the offsets 1..MaxStreams.
IsXrefStreamAt(off) ==
    off \in DOMAIN streams

\* The Size test of mergePrevXrefStreams on an older stream.
LargerThanPrevious(psize, maxSize, lastSize) ==
    psize > lastSize

TooLarge(psize, maxSize, lastSize) ==
    psize > maxSize

\* mergePrevXrefStreams from the header at offset j on: err, the table and
\* the offsets of the streams merged.  A chain longer than the streams of
\* the file goes round a cycle, and the loop never ends.
RECURSIVE mergePrevXrefStreams(_, _, _, _, _)
mergePrevXrefStreams(j, t, maxSize, seen, fuel) ==
    LET prevoff == streams[j].Prev
        psize == streams[prevoff].Size
    IN  IF prevoff = 0 THEN [err |-> "", table |-> t, chain |-> seen]
        ELSE IF ~IsXrefStreamAt(prevoff) THEN [err |-> "error", table |-> <<>>, chain |-> seen]
        ELSE IF TooLarge(psize, maxSize, streams[j].Size)
        THEN [err |-> "error", table |-> <<>>, chain |-> seen]
        ELSE IF fuel = 0 THEN [err |-> "never ends", table |-> <<>>, chain |-> seen]
        ELSE mergePrevXrefStreams(prevoff, readXrefStreamData(prevoff, 1, t), maxSize,
                                  Append(seen, prevoff), fuel - 1)

\* readXrefStream on the object at offset off
readXrefStream(off) ==
    IF ~IsXrefStreamAt(off) THEN [err |-> "error", table |-> <<>>, chain |-> <<>>]
    ELSE LET size == streams[off].Size
             first == readXrefStreamData(off, 1, [i \in 1..size |-> ZeroXref])
         IN  mergePrevXrefStreams(off, first, size, <<off>>, MaxStreams)

\* isLikelyObjectAt fails, and scanForObjectAt finds nothing around it.
\* The byte at offset 1 lies inside the header line, and an object kept in
\* an object stream has no "id gen obj" line of its own for the scan.
IsLost(off) ==
    \/ off = 1
    \/ \E j \in DOMAIN streams : \E i \in DOMAIN streams[j].kinds :
           streams[j].kinds[i] = "lost" /\ off = StreamEntryOffset(j, i)

\* validateAndRepairXrefEntries: the number of invalid entries
validateAndRepairXrefEntries(t) ==
    Cardinality({ i \in DOMAIN t : t[i].ptr # objptr(0, 0) /\ t[i].offset # 0 /\ IsLost(t[i].offset) })

mergeKeepDest(dest, src) ==
    dest

mergeSrcWins(dest, src) ==
    LET n == IF Len(src) > Len(dest) THEN Len(src) ELSE Len(dest)
    IN  [i \in 1..n |->
            IF i <= Len(src) /\ src[i].ptr # objptr(0, 0) THEN src[i]
            ELSE IF i <= Len(dest) THEN dest[i] ELSE ZeroXref]

mergeXrefTables(dest, src) ==
    LET n == IF Len(src) > Len(dest) THEN Len(src) ELSE Len(dest)
        d(i) == IF i <= Len(dest) THEN dest[i] ELSE ZeroXref
    IN  [i \in 1..n |->
            IF i > Len(src) THEN d(i)
            ELSE IF src[i].ptr = objptr(0, 0) THEN d(i)
            ELSE IF d(i).ptr = objptr(0, 0) THEN src[i]
            ELSE IF d(i).ptr.gen # FreeGen /\ src[i].ptr.gen # FreeGen THEN src[i]
            ELSE d(i)]

\* handleTrailerXRefStm: the table after the merge of the trailer's xref
\* stream, the same table when there is none or it is turned down.
handleTrailerXRefStm(t, tr) ==
    IF tr.XRefStm = 0 THEN [table |-> t, trailer |-> tr, hang |-> FALSE]
    ELSE LET src == readXrefStream(tr.XRefStm)
             invalid == validateAndRepairXrefEntries(src.table)
             inUse == Cardinality({ i \in DOMAIN src.table : src.table[i].ptr # objptr(0, 0) })
         IN  IF src.err # "" THEN [table |-> t, trailer |-> tr, hang |-> src.err = "never ends"]
             ELSE IF inUse > 0 /\ 10 * invalid > 3 * inUse
             THEN [table |-> t, trailer |-> tr, hang |-> FALSE]
             ELSE [table |-> mergeXrefTables(t, src.table), trailer |-> tr, hang |-> FALSE]

\* validateTrailerSize: the table trimmed to the trailer's Size
validateTrailerSize(t, tr) ==
    IF tr.Size < Len(t) THEN SubSeq(t, 1, tr.Size) ELSE t

InitOpen ==
    /\ sections \in SectionsOfFile
    /\ streams = <<>>
    /\ xpc = "startxref"
    /\ table = <<>>
    /\ trailer = <<>>
    /\ IdleProc
    /\ IdleSlots
    /\ IdleReader
    /\ IdleLib

\* readXrefTable up to the Prev loop: the section at startxref.
ReadFirstSection ==
    /\ xpc = "startxref"
    /\ LET parsed == parseXrefTableAndTrailer(1, <<>>)
           merged == handleTrailerXRefStm(parsed.table, parsed.trailer)
       IN  /\ table' = merged.table
           /\ trailer' = merged.trailer
           /\ xpc' = IF merged.hang THEN "hung" ELSE "prev"
    /\ UNCHANGED <<sections, streams, xref>>
    /\ UNCHANGED nonOpenVars

\* One round of the loop of resolvePrevXrefTables.
FollowPrev ==
    /\ xpc = "prev"
    /\ trailer.Prev # 0
    /\ IF trailer.Prev > Len(sections)
       THEN /\ xpc' = "failed"
            /\ UNCHANGED <<table, trailer>>
       ELSE LET parsed == parseXrefTableAndTrailer(trailer.Prev, table)
                merged == handleTrailerXRefStm(parsed.table, parsed.trailer)
            IN  /\ table' = merged.table
                /\ trailer' = merged.trailer
                /\ xpc' = IF merged.hang THEN "hung" ELSE "prev"
    /\ UNCHANGED <<sections, streams, xref>>
    /\ UNCHANGED nonOpenVars

\* The loop ends, validateTrailerSize runs on what resolvePrevXrefTables
\* returned, and NewReader stores the table and the trailer.
FinishOpen ==
    /\ xpc = "prev"
    /\ trailer.Prev = 0
    /\ IF trailer.Size = Absent
       THEN /\ xpc' = "failed"
            /\ UNCHANGED <<table, xref>>
       ELSE /\ table' = validateTrailerSize(table, trailer)
            /\ xref' = table'
            /\ xpc' = "open"
    /\ UNCHANGED <<sections, streams, trailer>>
    /\ UNCHANGED nonOpenVars

NextOpen ==
    \/ ReadFirstSection
    \/ FollowPrev
    \/ FinishOpen

SpecOpen ==
    InitOpen /\ [][NextOpen]_vars

\* NewReader runs on: a step of readXrefTable that can be taken is taken.
SpecOpenFair ==
    SpecOpen /\ WF_vars(NextOpen)

-----------------------------------------------------------------------------
(* Hybrid files: classic sections whose trailers may name an xref stream *)

\* The records of an xref stream: the first of any kind, the others in use.
StreamKindSeqs ==
    { [i \in 1..n |-> IF i = 1 THEN k ELSE "n"] :
        n \in 1..MaxEntries, k \in {"free", "n", "lost", "c", "c1"} }

\* The xref streams whose Prev is in prevs.
XrefStreams(prevs) ==
    { st \in [Size : 1..MaxSize, Prev : prevs, start : 0..1, kinds : StreamKindSeqs] :
        st.start + Len(st.kinds) <= st.Size }

HybridSections(prevs) ==
    [start : 0..1, allocs : AllocSeqs, Size : 1..MaxSize, Prev : prevs, XRefStm : 0..1]

\* A revision with its classic section at startxref, alone or on top of one
\* older revision whose section starts at object 0 and has the same Size.
HybridFiles ==
    { <<s1>> : s1 \in HybridSections({0}) }
    \cup { f \in { <<s1, s2>> : s1 \in HybridSections({2}), s2 \in HybridSections({0}) } :
               f[2].start = 0 /\ f[2].Size = f[1].Size }

NoStream ==
    [Size |-> 1, Prev |-> 0, start |-> 0, kinds |-> <<"free">>]

InitHybrid ==
    /\ sections \in HybridFiles
    /\ IF \E k \in DOMAIN sections : sections[k].XRefStm # 0
       THEN \E st \in XrefStreams({0}) : streams = <<st>>
       ELSE streams = <<NoStream>>
    /\ xpc = "startxref"
    /\ table = <<>>
    /\ trailer = <<>>
    /\ IdleProc
    /\ IdleSlots
    /\ IdleReader
    /\ IdleLib

SpecHybrid ==
    InitHybrid /\ [][NextOpen]_vars

-----------------------------------------------------------------------------
(* Files whose startxref names an xref stream *)

\* An xref stream of Size s with one in-use record, for object s - 1.
ChainStreams ==
    { st \in [Size : 1..MaxSize, Prev : 0..MaxStreams, start : 0..(MaxSize - 1),
              kinds : {<<"n">>}] : st.start = st.Size - 1 }

\* The xref streams of a file by offset, the one at startxref first.
StreamFiles ==
    UNION { [1..n -> ChainStreams] : n \in 1..MaxStreams }

InitStream ==
    /\ streams \in StreamFiles
    /\ sections = <<>>
    /\ xpc = "startxref"
    /\ table = <<>>
    /\ trailer = <<>>
    /\ IdleProc
    /\ IdleSlots
    /\ IdleReader
    /\ IdleLib

\* readXref finds an integer at startxref and NewReader stores what
\* readXrefStream returns, or fails with its error.
OpenStreamFile ==
    /\ xpc = "startxref"
    /\ LET res == readXrefStream(1)
       IN  /\ xpc' = IF res.err = "" THEN "open"
                     ELSE IF res.err = "never ends" THEN "hung" ELSE "failed"
           /\ table' = res.table
           /\ xref' = res.table
           /\ trailer' = IF res.err = "" THEN streams[1] ELSE trailer
    /\ UNCHANGED <<sections, streams>>
    /\ UNCHANGED nonOpenVars

NextStream ==
    OpenStreamFile

SpecStream ==
    InitStream /\ [][NextStream]_vars

\* The offsets of the streams readXrefStream merged, newest first.
Chain ==
    readXrefStream(1).chain

-----------------------------------------------------------------------------

(* Library functions called on their own *)

\* The bytes CheckHeader reads from the start of the file.
HeaderWindow == 10

\* The start of a file: its size, where the token %PDF- begins (-1 when it
\* is nowhere), and what follows the token: M.N, or something Sscanf cannot
\* read as two integers around a dot.
Headers ==
    { h \in [size : 0..MaxFileSize, p : -1..3, major : 0..MaxMajor, minor : 0..MaxMinor,
             wellFormed : BOOLEAN] : h.p >= 0 => h.p + 5 <= h.size }

\* CheckHeader: the error returned, "" for nil.  ReadAt gives io.EOF when
\* the file is shorter than the window and nil otherwise; the branches
\* that log a problem and `return err` return that value.
CheckHeader(h) ==
    LET n == IF h.size < HeaderWindow THEN h.size ELSE HeaderWindow
        err == IF h.size < HeaderWindow THEN "EOF" ELSE ""
    IN  IF n = 0 THEN "not a PDF file: empty"
        ELSE IF h.p < 0 \/ h.p + 5 > n THEN err
        ELSE IF ~h.wellFormed \/ h.p + 8 > n THEN "malformed version"
        ELSE IF ~(\/ h.major = 1 /\ h.minor >= 0 /\ h.minor <= 7
                  \/ h.major = 2 /\ h.minor = 0)
        THEN err
        ELSE ""

\* Byte values: the row tag 2, a value that is not the tag, and one that
\* overflows a byte when added to itself.
ByteVals ==
    {1, 2, 200}

\* A stream's filter, the Predictor and Columns of its DecodeParms (Absent
\* when the key is missing) and the bytes the zlib reader yields.
FilterInputs ==
    { f \in [name : {"FlateDecode"}, Predictor : {Absent, 12, 15}, Columns : {Absent} \cup (0..MaxCols),
             data : UNION { [1..n -> ByteVals] : n \in 0..MaxData }] :
        f.Predictor # 12 => f.data = <<>> /\ f.Columns = Absent }

\* param.Key(k).Int64(): 0 for a missing key
ParamInt64(v) ==
    IF v = Absent THEN 0 ELSE v

\* applyFilter: the reader it returns, or the panic
applyFilter(f) ==
    IF f.name # "FlateDecode" THEN [kind |-> "panic", msg |-> "unknown filter"]
    ELSE IF f.Predictor = Absent THEN [kind |-> "zlib"]
    ELSE IF ParamInt64(f.Predictor) # 12 THEN [kind |-> "panic", msg |-> "pred"]
    ELSE LET columns == ParamInt64(f.Columns)
         IN  [kind |-> "pngUp", width |-> 1 + columns, hist |-> [i \in 1..(1 + columns) |-> 0],
              pend |-> <<>>, pos |-> 0, from |-> 0, out |-> <<>>, err |-> ""]

AddNoWrap(a, b) ==
    a + b

\* r.hist[i] += b on bytes
AddByte(a, b) ==
    (a + b) % 256

\* pngUpReader.Read into a buffer with room for blen more bytes: the reader
\* afterwards, with the bytes delivered appended to out, the position in
\* the underlying stream and the error returned ("" for nil).
RECURSIVE Read(_, _, _)
Read(r, data, blen) ==
    IF blen = 0 THEN [r EXCEPT !.err = ""]
    ELSE IF Len(r.pend) > 0
    THEN LET m == IF blen < Len(r.pend) THEN blen ELSE Len(r.pend)
         IN  Read([r EXCEPT !.out = r.out \o SubSeq(r.pend, 1, m),
                            !.pend = SubSeq(r.pend, m + 1, Len(r.pend))], data, blen - m)
    ELSE IF r.pos = Len(data) THEN [r EXCEPT !.err = "EOF"]
    ELSE IF r.pos + r.width > Len(data) THEN [r EXCEPT !.pos = Len(data), !.err = "unexpected EOF"]
    ELSE LET tmp == SubSeq(data, r.pos + 1, r.pos + r.width)
             hist == [i \in 1..r.width |-> AddByte(r.hist[i], tmp[i])]
         IN  IF tmp[1] # 2 THEN [r EXCEPT !.pos = r.pos + r.width, !.err = "malformed"]
             ELSE Read([r EXCEPT !.pos = r.pos + r.width, !.hist = hist, !.pend = Tail(hist)],
                       data, blen)

\* Go's <= on strings of bytes
RECURSIVE LexLeq(_, _)
LexLeq(a, b) ==
    IF a = <<>> THEN TRUE
    ELSE IF b = <<>> THEN FALSE
    ELSE IF a[1] # b[1] THEN a[1] < b[1]
    ELSE LexLeq(Tail(a), Tail(b))

\* A cmap with codespace ranges for codes of 1 and 2 bytes, bfchar entries
\* and bfrange entries whose dst is a string, an array or something else,
\* and the raw string to decode.
DecodeInputs ==
    LET str(b) == [kind |-> "String", s |-> b]
        range(lo, hi, dst) == [lo |-> lo, hi |-> hi, dst |-> dst]
        spaces == { <<{}, {}>>,
                    <<{[low |-> <<5>>, high |-> <<6>>]}, {}>>,
                    <<{}, {[low |-> <<5, 5>>, high |-> <<6, 6>>]}>>,
                    <<{[low |-> <<6>>, high |-> <<255>>]}, {[low |-> <<5, 5>>, high |-> <<6, 6>>]}>> }
        bfchars == { <<>>,
                     <<[orig |-> <<5>>, repl |-> <<0, 65>>]>>,
                     <<[orig |-> <<6>>, repl |-> <<>>]>>,
                     <<[orig |-> <<5, 5>>, repl |-> <<255, 253>>]>>,
                     <<[orig |-> <<255>>, repl |-> <<0, 66>>]>> }
        bfranges == { <<>>,
                      <<range(<<5>>, <<6>>, str(<<0, 65>>))>>,
                      <<range(<<5>>, <<6>>, [kind |-> "Array", elems |-> <<str(<<0, 65>>)>>])>>,
                      <<range(<<5, 5>>, <<5, 6>>,
                              [kind |-> "Array", elems |-> <<str(<<0, 65>>), [kind |-> "Integer"]>>])>>,
                      <<range(<<5>>, <<6>>, [kind |-> "Integer"])>> }
    IN  [m : [space : spaces, bfchar : bfchars, bfrange : bfranges],
         raw : UNION { [1..n -> {5, 6, 255}] : n \in 1..MaxInput }]

\* utf16Decode: the runes of a UTF-16BE string of code units below the
\* surrogates.
utf16Decode(b) ==
    [i \in 1..(Len(b) \div 2) |-> 256 * b[2 * i - 1] + b[2 * i]]

\* DecodeUTF8OrPreserve on bytes that are ASCII or no valid UTF-8: a byte
\* of ASCII is its rune, any other byte is kept as the rune of its value.
DecodeUTF8OrPreserve(b) ==
    b

\* findNextCodespace: the width of the shortest prefix of raw in a
\* codespace range of its length, 0 when there is none.
findNextCodespace(m, raw) ==
    LET fits(n) == /\ n <= Len(raw)
                   /\ \E space \in m.space[n] :
                          LexLeq(space.low, SubSeq(raw, 1, n)) /\ LexLeq(SubSeq(raw, 1, n), space.high)
    IN  IF fits(1) THEN 1 ELSE IF fits(2) THEN 2 ELSE 0

\* resolveCodeMapping from the i-th bfrange on, after no bfchar matched:
\* resolveBfrangeWithString, resolveBfrangeWithArray, or no mapping.
RECURSIVE resolveBfrange(_, _, _)
resolveBfrange(m, code, i) ==
    IF i > Len(m.bfrange) THEN [ok |-> FALSE, runes |-> <<>>]
    ELSE LET br == m.bfrange[i]
             idx == (code[Len(code)] - br.lo[Len(br.lo)]) % 256
         IN  IF ~(Len(br.lo) = Len(code) /\ LexLeq(br.lo, code) /\ LexLeq(code, br.hi))
             THEN resolveBfrange(m, code, i + 1)
             ELSE IF br.dst.kind = "String"
             THEN LET b == br.dst.s
                      n == Len(b)
                  IN  [ok |-> TRUE,
                       runes |-> utf16Decode(IF br.lo = code THEN b
                                             ELSE [b EXCEPT ![n] = (b[n] + idx) % 256])]
             ELSE IF br.dst.kind = "Array"
             THEN [ok |-> TRUE,
                   runes |-> IF idx + 1 \in DOMAIN br.dst.elems /\ br.dst.elems[idx + 1].kind = "String"
                             THEN utf16Decode(br.dst.elems[idx + 1].s)
                             ELSE <<>>]
             ELSE resolveBfrange(m, code, i + 1)

\* resolveCodeMapping: an exact bfchar match, else the bfranges
resolveCodeMapping(m, code) ==
    LET hits == { i \in DOMAIN m.bfchar : m.bfchar[i].orig = code }
    IN  IF hits # {}
        THEN [ok |-> TRUE, runes |-> utf16Decode(m.bfchar[CHOOSE i \in hits : \A j \in hits : i <= j].repl)]
        ELSE resolveBfrange(m, code, 1)

\* cmap.Decode: the runes of the string returned
RECURSIVE Decode(_, _)
Decode(m, raw) ==
    IF raw = <<>> THEN <<>>
    ELSE LET width == findNextCodespace(m, raw)
             code == SubSeq(raw, 1, width)
             decoded == resolveCodeMapping(m, code)
         IN  IF width = 0
             THEN DecodeUTF8OrPreserve(SubSeq(raw, 1, 1)) \o Decode(m, Tail(raw))
             ELSE (IF decoded.ok THEN decoded.runes ELSE DecodeUTF8OrPreserve(code))
                  \o Decode(m, SubSeq(raw, width + 1, Len(raw)))

\* The strings walkTextBlocks shows, in content order: the i-th has S = i
\* and the position the last Tm gave it, in tenths of a unit.
ShownTexts ==
    UNION { { t \in [1..n -> [S : 1..n, X : {-5, 5, 12}, Y : {-5, 5, 12}]] :
                \A i \in 1..n : t[i].S = i } : n \in 0..MaxTexts }

floorOfTenths(x) ==
    IF x >= 0 THEN x \div 10 ELSE -(((-x) + 9) \div 10)

\* int64(f) of a float64 given in tenths: truncation towards zero
int64(x) ==
    IF x >= 0 THEN x \div 10 ELSE -((-x) \div 10)

\* showText of GetTextByColumn (by = "X") and GetTextByRow (by = "Y") for
\* the texts from the i-th on: the text joins the group of its truncated
\* position, or a new group appended for it.
RECURSIVE showText(_, _, _, _)
showText(texts, i, by, result) ==
    IF i > Len(texts) THEN result
    ELSE LET text == texts[i]
             pos == int64(IF by = "X" THEN text.X ELSE text.Y)
             found == { g \in DOMAIN result : result[g].Position = pos }
         IN  showText(texts, i + 1, by,
                      IF found = {}
                      THEN Append(result, [Position |-> pos, Content |-> <<text>>])
                      ELSE [result EXCEPT ![CHOOSE g \in found : TRUE].Content = Append(@, text)])

\* TextVertical.Less (by = "X") and TextHorizontal.Less (by = "Y")
Less(by, a, b) ==
    IF by = "X"
    THEN (IF a.Y # b.Y THEN a.Y > b.Y ELSE a.X < b.X)
    ELSE (IF a.X # b.X THEN a.X < b.X ELSE a.Y > b.Y)

\* What sort.Sort can leave of a group's content: sort.Sort is not stable,
\* so texts that Less does not order may come out either way.
Sorted(by, content) ==
    { c \in [DOMAIN content -> { content[i] : i \in DOMAIN content }] :
        /\ \A i, j \in DOMAIN c : i # j => c[i] # c[j]
        /\ \A i, j \in DOMAIN c : i < j => ~Less(by, c[j], c[i]) }

\* The results GetTextByColumn / GetTextByRow can return: every group's
\* content sorted, then the groups sorted by Position, ascending for
\* columns and descending for rows.
GroupedTexts(texts, by) ==
    LET result == showText(texts, 1, by, <<>>)
        sorted == UNION { { [Position |-> result[g].Position, Content |-> c] :
                              c \in Sorted(by, result[g].Content) } : g \in DOMAIN result }
    IN  { r \in [DOMAIN result -> sorted] :
            \A i, j \in DOMAIN r : i < j =>
                IF by = "X" THEN r[i].Position < r[j].Position
                ELSE r[i].Position > r[j].Position }

\* A page operation and the page's content stream: its filter, and its
\* operators with the number of operands on the stack at each.
PageCalls ==
    [op : {"GetPlainText", "GetTextByRow", "GetTextByColumn", "Content", "GetStyledTexts"},
     filter : {"FlateDecode", "LZWDecode"},
     content : UNION { [1..n -> [name : {"q", "Q", "Tj", "'", "\""}, operands : {0, 1, 3}]] :
                         n \in 1..MaxOps }]

\* Interpret with the callback of Page.Content (full = TRUE) or that of
\* GetPlainText and walkTextBlocks, from the i-th operator on with depth
\* graphics states saved: the panic that ends it, "" when it returns.
\* The case of the operator " falls through to the case of ', which wants
\* one operand; only the callback of Page.Content drops the two spacings
\* from the operands before it.
RECURSIVE Interpret(_, _, _, _)
Interpret(content, full, i, depth) ==
    IF i > Len(content) THEN ""
    ELSE LET o == content[i]
         IN  IF o.name = "Tj" /\ o.operands # 1 THEN "bad Tj operator"
             ELSE IF o.name = "'" /\ o.operands # 1 THEN "bad ' operator"
             ELSE IF o.name = "\"" /\ o.operands # 3 THEN "bad \" operator"
             ELSE IF o.name = "\"" /\ ~full THEN "bad ' operator"
             ELSE IF o.name = "Q" /\ full /\ depth = 0 THEN "index out of range [-1]"
             ELSE Interpret(content, full, i + 1,
                            IF ~full THEN depth
                            ELSE IF o.name = "q" THEN depth + 1
                            ELSE IF o.name = "Q" THEN depth - 1
                            ELSE depth)

\* A page operation on a page with Contents: what it returns, or the
\* panic that leaves it.  GetPlainText, GetTextByRow and GetTextByColumn
\* defer a recover that turns a panic into err and empties the result;
\* Content and GetStyledTexts do not.  shown is the number of strings the
\* result holds, one for each Tj, ' and " of the content.
PageOp(c) ==
    LET thrown == IF c.filter # "FlateDecode" THEN "unknown filter"
                  ELSE Interpret(c.content, c.op \in {"Content", "GetStyledTexts"}, 1, 0)
        strings == { i \in DOMAIN c.content : c.content[i].name \in {"Tj", "'", "\""} }
    IN  IF thrown = "" THEN [err |-> "", panic |-> "", shown |-> Cardinality(strings)]
        ELSE IF c.op \in {"GetPlainText", "GetTextByRow", "GetTextByColumn"}
        THEN [err |-> thrown, panic |-> "", shown |-> 0]
        ELSE [err |-> "", panic |-> thrown, shown |-> 0]

\* findLastLine(buf, s) on a buffer of units: "K" is an occurrence of the
\* keyword s, "E" an EOL byte (CR, LF), "b" another PDF whitespace byte
\* (NUL, tab, FF, space), "x" any other byte.  The index returned counts
\* units from 0.  SkipWhitespace gives j, the first unit after the keyword
\* that is no whitespace; EndsWithEOL looks at the unit before j.
findLastLine(buf) ==
    LET indices == { i \in DOMAIN buf : buf[i] = "K" }
        SkipWhitespace(j0) ==
            CHOOSE j \in j0..(Len(buf) + 1) :
                /\ \A k \in j0..(j - 1) : buf[k] \in {"E", "b"}
                /\ j = Len(buf) + 1 \/ buf[j] \notin {"E", "b"}
        EndsWithEOL(start, end) == end > start /\ buf[end - 1] = "E"
        good == { i \in indices : EndsWithEOL(i + 1, SkipWhitespace(i + 1)) }
    IN  IF good = {} THEN -1
        ELSE (CHOOSE i \in good : \A k \in good : k <= i) - 1

InitLib ==
    /\ \/ callee = "CheckHeader" /\ input \in Headers
       \/ callee = "adjustWorkerCount"
              /\ input \in [maxWorkers : (-1)..(MaxNumCPU + 1), NumCPU : 1..MaxNumCPU]
       \/ callee = "mergeXrefTables"
              /\ LET slot(p, off) == [ptr |-> p, inStream |-> FALSE, stream |-> objptr(0, 0),
                                      offset |-> off]
                     slots == { ZeroXref, slot(objptr(0, 0), 11), slot(objptr(1, 0), 11),
                                slot(objptr(1, 1), 12), slot(objptr(0, FreeGen), 0) }
                     tables == UNION { [1..n -> slots] : n \in 0..MaxMerge }
                 IN  input \in [dest : tables, src : tables]
       \/ callee = "findLastLine"
              /\ input \in UNION { [1..n -> {"K", "E", "b", "x"}] : n \in 0..MaxLine }
       \/ callee = "Page" /\ input \in PageCalls
       \/ callee \in {"GetTextByColumn", "GetTextByRow"} /\ input \in ShownTexts
       \/ callee = "Decode" /\ input \in DecodeInputs
       \/ callee = "applyFilter" /\ input \in FilterInputs
    /\ output = <<>>
    /\ IdleProc
    /\ IdleSlots
    /\ IdleReader
    /\ IdleOpen

CallCheckHeader ==
    /\ callee = "CheckHeader"
    /\ output = <<>>
    /\ output' = [err |-> CheckHeader(input)]
    /\ UNCHANGED <<callee, input>>
    /\ UNCHANGED nonLibVars

\* Value.Reader applies the stream's filter.
CallApplyFilter ==
    /\ callee = "applyFilter"
    /\ output = <<>>
    /\ output' = applyFilter(input)
    /\ UNCHANGED <<callee, input>>
    /\ UNCHANGED nonLibVars

\* The caller reads from the PNG-Up reader with a buffer of any size.
CallRead ==
    /\ callee = "applyFilter"
    /\ output # <<>>
    /\ output.kind = "pngUp"
    /\ \E blen \in 0..MaxBuf :
           output' = Read([output EXCEPT !.from = output.pos], input.data, blen)
    /\ UNCHANGED <<callee, input>>
    /\ UNCHANGED nonLibVars

CallDecode ==
    /\ callee = "Decode"
    /\ output = <<>>
    /\ output' = [runes |-> Decode(input.m, input.raw)]
    /\ UNCHANGED <<callee, input>>
    /\ UNCHANGED nonLibVars

CallGetTextBy ==
    /\ callee \in {"GetTextByColumn", "GetTextByRow"}
    /\ output = <<>>
    /\ \E r \in GroupedTexts(input, IF callee = "GetTextByColumn" THEN "X" ELSE "Y") :
           output' = [result |-> r, err |-> ""]
    /\ UNCHANGED <<callee, input>>
    /\ UNCHANGED nonLibVars

CallPageOp ==
    /\ callee = "Page"
    /\ output = <<>>
    /\ output' = PageOp(input)
    /\ UNCHANGED <<callee, input>>
    /\ UNCHANGED nonLibVars

\* FindStartXref looks for the keyword in the tail of the file.
CallFindLastLine ==
    /\ callee = "findLastLine"
    /\ output = <<>>
    /\ output' = [index |-> findLastLine(input)]
    /\ UNCHANGED <<callee, input>>
    /\ UNCHANGED nonLibVars

\* mergeXrefTables called on two tables
CallMergeXrefTables ==
    /\ callee = "mergeXrefTables"
    /\ output = <<>>
    /\ output' = [table |-> mergeXrefTables(input.dest, input.src)]
    /\ UNCHANGED <<callee, input>>
    /\ UNCHANGED nonLibVars

\* adjustWorkerCount called on a machine with input.NumCPU processors
CallAdjustWorkerCount ==
    /\ callee = "adjustWorkerCount"
    /\ output = <<>>
    /\ output' = [workers |-> adjustWorkerCount(input.maxWorkers, input.NumCPU)]
    /\ UNCHANGED <<callee, input>>
    /\ UNCHANGED nonLibVars

NextLib ==
    \/ CallCheckHeader
    \/ CallAdjustWorkerCount
    \/ CallMergeXrefTables
    \/ CallFindLastLine
    \/ CallPageOp
    \/ CallGetTextBy
    \/ CallDecode
    \/ CallApplyFilter
    \/ CallRead

SpecLib ==
    InitLib /\ [][NextLib]_vars

-----------------------------------------------------------------------------

\* The reader of the PNG-Up predictor has been built.
PngUp ==
    callee = "applyFilter" /\ output # <<>> /\ output.kind = "pngUp"

\* data is n rows of width bytes, each with the tag 2.
WellFormedRows(data, width) ==
    /\ Len(data) % width = 0
    /\ \A k \in 0..((Len(data) \div width) - 1) : data[k * width + 1] = 2

\* The sum modulo 256 of the i-th data bytes of the rows 1..k.
RECURSIVE UpSum(_, _, _, _)
UpSum(data, width, k, i) ==
    IF k = 0 THEN 0
    ELSE (UpSum(data, width, k - 1, i) + data[(k - 1) * width + 1 + i]) % 256

\* handleTrailerXRefStm merges the xref stream at offset off: it can be
\* read and no more than 30% of its entries are invalid.
StreamAccepted(off) ==
    LET src == readXrefStream(off)
        filled == { i \in DOMAIN src.table : src.table[i].ptr # objptr(0, 0) }
    IN  /\ src.err = ""
        /\ 10 * validateAndRepairXrefEntries(src.table) <= 3 * Cardinality(filled)

\* The entry a table has for object x; unset beyond its length.
EntryAt(t, x) ==
    IF x + 1 \in DOMAIN t THEN t[x + 1] ELSE ZeroXref

-----------------------------------------------------------------------------
(* What a call has emitted and delivered *)

\* The bytes emitted so far: written to the builder of emitInOrder, or
\* received by the consumer of outCh.
Emitted ==
    IF op = "Extract" THEN col.out ELSE Flatten(streamed)

\* The text the caller ends up with.
Delivered ==
    IF op = "Extract" THEN ret.text ELSE Flatten(streamed)

\* The call is over: Extract has returned, or ExtractAsStream has returned
\* and its streaming goroutine has closed outCh.
Finished ==
    /\ pc = "returned"
    /\ op = "ExtractAsStream" => (total = 0 \/ cpc = "done")

\* The texts of all pages, in page order.
ConcatAll ==
    Flatten([p \in 1..total |-> doc[p].text])

\* ConcatAll cut at the character limit.
ConcatLimited ==
    IF cfg.MaxTotalChars > 0 /\ Len(ConcatAll) > cfg.MaxTotalChars
    THEN Take(ConcatAll, cfg.MaxTotalChars)
    ELSE ConcatAll

-----------------------------------------------------------------------------
(* Claims *)

\* C1: whatever the order in which the page results arrive, the bytes
\* emitted by emitInOrder and streamInOrder are a prefix of the page texts
\* concatenated in page order: page k only after every page j < k, from
\* page 1 on, and no text twice.
C1_EmitsInPageOrder ==
    IsPrefix(Emitted, ConcatAll)

\* C1 witness: page 2 reached the collector before page 1, and both texts
\* have been streamed, page 1 first.
C1_Witness ==
    /\ op = "ExtractAsStream"
    /\ reordered
    /\ Len(streamed) = 2
    /\ streamed[1] = doc[1].text
    /\ streamed[2] = doc[2].text

\* C2 (as claimed): in best-effort mode a page whose extraction fails is
\* skipped, the call ends without error and delivers the texts of all
\* other pages in page order, up to the character limit.
C2_BestEffortSkipsFailedPage ==
    ( /\ cfg.ParsingMode = "best-effort"
      /\ \E p \in 1..total : doc[p].status = "fail"
      /\ Finished )
    => (~ret.err /\ Delivered = ConcatLimited)

\* C3 (as claimed): in strict mode, when the extraction of some page
\* fails, Extract returns an error and the empty text.
C3_StrictFailsOnAnyPage ==
    ( /\ cfg.ParsingMode = "strict"
      /\ op = "Extract"
      /\ pc = "returned"
      /\ \E p \in 1..total : doc[p].status \in {"fail", "null"} )
    => (ret.err /\ ret.text = <<>>)

\* C4: with MaxTotalChars > 0 the bytes emitted never exceed the limit,
\* and once the collector has truncated, the output is exactly the first
\* MaxTotalChars bytes of the page texts (a page longer than the remaining
\* budget contributes exactly its first `remaining` bytes) and never
\* changes again.
C4_NeverExceedsLimit ==
    /\ [](cfg.MaxTotalChars > 0 =>
            /\ Len(Emitted) <= cfg.MaxTotalChars
            /\ col.trunc => Emitted = Take(ConcatAll, cfg.MaxTotalChars))
    /\ [][cfg.MaxTotalChars > 0 /\ col.trunc => Emitted' = Emitted]_vars

\* C4 witness: the output was cut inside a page: the last byte emitted is
\* not the last byte of its page.
C4_Witness ==
    /\ cfg.MaxTotalChars > 0
    /\ col.trunc
    /\ Len(Emitted) = cfg.MaxTotalChars
    /\ LET b == Emitted[Len(Emitted)]
       IN  b % 10 < Len(doc[b \div 10].text)

\* C5 (as claimed): with MaxTotalChars > 0, when Extract returns without
\* error the truncated flag is true exactly when the returned text has
\* at least MaxTotalChars bytes.
C5_TruncatedIffAtLimit ==
    ( /\ op = "Extract"
      /\ pc = "returned"
      /\ cfg.MaxTotalChars > 0
      /\ ~ret.err )
    => (ret.truncated <=> Len(ret.text) >= cfg.MaxTotalChars)

\* C6 (as claimed): the truncated flag returned by ExtractAsStream is true
\* for every run in which streamInOrder stopped at the limit.
C6_StreamFlagTellsTruncation ==
    ( /\ op = "ExtractAsStream"
      /\ pc = "returned"
      /\ cpc = "done"
      /\ col.trunc )
    => ret.truncated

\* C7 (as claimed): at every moment at most MaxConcurrentPDFs documents
\* are being processed by one processor, counting the Extract calls in
\* progress and the ExtractAsStream calls whose workers or streaming
\* goroutine still run.
C7_AtMostMaxConcurrentPDFs ==
    Cardinality({c \in Calls : Processing(c)}) <= maxPDFs

\* C8: resolve of an indirect reference returns the Null value without a
\* read of the file when the object number is >= len(xref), the slot's
\* pointer differs from the requested one, or the slot is uncompressed
\* with offset 0; a child that is no reference is wrapped unchanged under
\* its parent.
C8_ResolveNullOrWrap ==
    acc.resolved =>
        IF acc.child.k = "objptr"
        THEN NullCase(acc.child) => raised = "" /\ cur = ZeroValue /\ acc.reads = 0
        ELSE raised = "" /\ cur = Value(acc.parent, acc.child) /\ acc.reads = 0

\* C8 witness: a reference whose generation differs from its slot's,
\* though the slot's offset holds a definition, came back Null.
C8_Witness ==
    /\ acc.resolved
    /\ acc.child.k = "objptr"
    /\ acc.child.n = 1
    /\ acc.child.g = 1
    /\ Len(xref) > 1
    /\ xref[2].ptr = objptr(1, 0)
    /\ xref[2].offset = 1
    /\ cur = ZeroValue
    /\ raised = ""

\* C9 (as claimed): no accessor raises, whatever the xref table and the
\* file hold.
C9_AccessorsNeverRaise ==
    raised = ""

\* The reference x names a slot whose object the code cannot load.
Unloadable(parent, x) ==
    LET e == xref[x.n + 1]
        strm == resolve(parent, PtrObj(e.stream), Fuel)
    IN  IF e.inStream
        THEN strm.panic = "" /\ ( \/ Kind(strm.val) # "Stream"
                                  \/ Lookup(strm.val.data.d, "Type") # NameObj("ObjStm") )
        ELSE file[e.offset].k # "objdef" \/ file[e.offset].ptr # objptr(x.n, x.g)

\* C9 (amended): the accessors that return Go values never raise; Key and
\* Index return without raising when the kind does not match, the index
\* is out of range, the child is no reference, or the reference is
\* answered Null before any read; they raise when the reference names a
\* compressed entry whose container is not a stream of Type /ObjStm or an
\* uncompressed entry whose offset does not hold the definition of the
\* requested pointer.
C9_RaiseOnlyOnUnloadable ==
    /\ raised # "" => acc.resolved /\ acc.child.k = "objptr" /\ ~NullCase(acc.child)
    /\ acc.resolved /\ acc.child.k = "objptr" /\ ~NullCase(acc.child)
         /\ Unloadable(acc.parent, acc.child) => raised # ""

\* C9 witness: Key on an entry that is a compressed object whose container
\* is a stream, but not an object stream, ended in a panic.
C9_Witness ==
    /\ acc.op = "Key"
    /\ acc.resolved
    /\ acc.child = PtrObj(objptr(1, 0))
    /\ xref[2].inStream
    /\ xref[2].stream = objptr(2, 0)
    /\ Kind(resolve(acc.parent, PtrObj(objptr(2, 0)), Fuel).val) = "Stream"
    /\ raised = "not an object stream"

\* C10 (as claimed): after a successful open through the classic-table
\* path the final xref table is as long as the Size of the most recent
\* trailer, the one of the section at startxref, also with a Prev chain
\* whose older trailers declare another Size.
C10_LengthIsNewestSize ==
    xpc = "open" => Len(xref) = sections[1].Size

\* C11 (as claimed): while the classic path follows the Prev chain, a slot
\* that is filled when the processing of an older section starts keeps
\* its value through that section and its XRefStm.
C11_OlderSectionsNeverOverwrite ==
    [][xpc = "prev" /\ xpc' = "prev" =>
          \A i \in DOMAIN table : table[i].ptr # objptr(0, 0) => table'[i] = table[i]]_vars

C13_NoAcceptedSizeIncrease ==
    xpc = "open" /\ sections = <<>> =>
        \A i \in 2..Len(Chain) : streams[Chain[i]].Size <= streams[Chain[i - 1]].Size

\* C13 (amended): each older stream's Size is compared with the Size of the
\* stream at startxref.  An accepted chain has no stream larger than the
\* first; the open fails with no table at the first Prev that names no xref
\* stream or a stream larger than the first; a chain that comes back to one
\* of its streams before that is followed for ever.
C13_NoStreamLargerThanFirst ==
    sections = <<>> =>
        /\ xpc \in {"open", "failed"} =>
               \A i \in DOMAIN Chain : streams[Chain[i]].Size <= streams[1].Size
        /\ xpc = "open" => streams[Chain[Len(Chain)]].Prev = 0 /\ Len(xref) = streams[1].Size
        /\ xpc = "failed" =>
               LET next == streams[Chain[Len(Chain)]].Prev
               IN  /\ xref = <<>>
                   /\ next # 0
                   /\ next \in DOMAIN streams => streams[next].Size > streams[1].Size
        /\ xpc = "hung" =>
               /\ \E i, j \in DOMAIN Chain : i < j /\ Chain[i] = Chain[j]
               /\ \A i \in DOMAIN Chain : streams[Chain[i]].Size <= streams[1].Size

\* C13 witness: a chain of the Sizes 2, 1 turned down at its third stream,
\* of Size 3.
C13_Witness ==
    /\ sections = <<>>
    /\ xpc = "failed"
    /\ xref = <<>>
    /\ Len(Chain) = 2
    /\ streams[1].Size = 2
    /\ streams[Chain[2]].Size = 1
    /\ streams[Chain[2]].Prev \in DOMAIN streams
    /\ streams[streams[Chain[2]].Prev].Size = 3

\* C14: CheckHeader returns nil only if %PDF-M.N lies within the first 10
\* bytes with a supported version (1.0 to 1.7, or 2.0).
C14_NilOnlyForSupportedHeader ==
    callee = "CheckHeader" /\ output # <<>> /\ output.err = "" =>
        /\ input.p >= 0
        /\ input.p + 8 <= HeaderWindow
        /\ input.p + 8 <= input.size
        /\ input.wellFormed
        /\ \/ input.major = 1 /\ input.minor <= 7
           \/ input.major = 2 /\ input.minor = 0

\* C15: for n well-formed rows of 1 + c bytes, whatever the buffer sizes of
\* the Read calls, what has been delivered is a prefix of the rows' running
\* sums modulo 256 and is all n*c bytes of them once Read reports the end;
\* a Read that takes in a row whose first byte is not 2 returns an error.
C15_PngUpDeliversRunningSums ==
    PngUp =>
        LET c == output.width - 1
            n == Len(input.data) \div output.width
        IN  /\ WellFormedRows(input.data, output.width) =>
                /\ Len(output.out) <= n * c
                /\ \A q \in DOMAIN output.out :
                       output.out[q] = UpSum(input.data, output.width, ((q - 1) \div c) + 1,
                                             ((q - 1) % c) + 1)
                /\ output.err # "" => output.err = "EOF" /\ Len(output.out) = n * c
            /\ \A k \in 1..n :
                   /\ output.from < k * output.width
                   /\ k * output.width <= output.pos
                   /\ input.data[(k - 1) * output.width + 1] # 2
                   => output.err = "malformed"

\* C15 witness: two rows of two columns read to the end, the second row's
\* first sum having overflowed a byte.
C15_Witness ==
    /\ PngUp
    /\ input.data = <<2, 200, 1, 2, 200, 1>>
    /\ output.width = 3
    /\ output.err = "EOF"
    /\ output.out = <<200, 1, 144, 2>>

\* C16: with Predictor 12 and no Columns, Columns is 1: rows are framed as
\* 2 bytes and each row yields one output byte.
C16_ColumnsDefaultsToOne ==
    PngUp /\ input.Columns = Absent =>
        /\ output.width = 2
        /\ WellFormedRows(input.data, 2) /\ output.err = "EOF"
               => Len(output.out) = Len(input.data) \div 2

\* C17: for any cmap and any non-empty input, Decode emits at least one
\* rune and never U+FFFD (no byte of the inputs here decodes to U+FFFD
\* under UTF-8).
C17_DecodeEmitsARuneAndNoFFFD ==
    callee = "Decode" /\ output # <<>> =>
        /\ Len(output.runes) >= 1
        /\ \A i \in DOMAIN output.runes : output.runes[i] # 65533

C19_ResolveNeverReenters ==
    raised # "never ends"

\* C20: a failure while a page's content stream is interpreted never leaves
\* GetPlainText, GetTextByRow, GetTextByColumn, Content or GetStyledTexts as
\* a panic; it shows in the values returned.
C20_NoPanicLeavesAPageOperation ==
    callee = "Page" /\ output # <<>> => output.panic = ""

\* C26: after a classic-xref file is opened, Reader.Trailer() is the trailer
\* of the section at startxref, also when a Prev chain was followed.
C26_TrailerIsNewest ==
    xpc = "open" => trailer.at = 1

\* C27: building the xref terminates, with a table or an error, for every
\* file, also when the Prev offsets form a cycle.
C27_BuildingXrefTerminates ==
    <>(xpc \in {"open", "failed"})

\* C21: findLastLine returns the index of the last occurrence of the
\* keyword whose following run of PDF whitespace contains at least one EOL,
\* and -1 when no occurrence qualifies.
C21_LastKeywordWithEOLInRun ==
    callee = "findLastLine" /\ output # <<>> =>
        LET inRun(i, k) == k > i /\ \A l \in (i + 1)..k : input[l] \in {"E", "b"}
            ok == { i \in DOMAIN input :
                      input[i] = "K" /\ \E k \in DOMAIN input : inRun(i, k) /\ input[k] = "E" }
        IN  /\ ok = {} => output.index = -1
            /\ ok # {} => output.index + 1 \in ok /\ \A i \in ok : i <= output.index + 1

C23_RejectedOnlyAboveThirtyPercent ==
    /\ xpc = "prev"
    /\ trailer.at = 1
    /\ sections[1].XRefStm # 0
    /\ readXrefStream(sections[1].XRefStm).err = ""
    => LET kinds == streams[sections[1].XRefStm].kinds
           inUse == Cardinality({ i \in DOMAIN kinds : kinds[i] # "free" })
           invalid == Cardinality({ i \in DOMAIN kinds : kinds[i] = "lost" })
           classic == readXrefTableData(1, 1, <<>>)
       IN  table = IF 10 * invalid > 3 * inUse THEN classic
                   ELSE mergeXrefTables(classic, readXrefStream(sections[1].XRefStm).table)

\* C24: in every page operation the operator " with its three operands
\* acts as ' with the string alone: the operation returns what it returns
\* for the content in which each such " is replaced by ', the same strings
\* shown and the same error.
C24_DoubleQuoteActsAsQuote ==
    callee = "Page" /\ output # <<>> =>
        output = PageOp([input EXCEPT !.content =
                            [i \in DOMAIN input.content |->
                                IF input.content[i] = [name |-> "\"", operands |-> 3]
                                THEN [name |-> "'", operands |-> 1]
                                ELSE input.content[i]]])

\* C25: adjustWorkerCount(n) returns 1 for every n < 1 and n itself for
\* every n from 1 to the number of processors, whatever that number is.
C25_KeepsCountsUpToNumCPU ==
    callee = "adjustWorkerCount" /\ output # <<>> =>
        /\ input.maxWorkers < 1 => output.workers = 1
        /\ 1 <= input.maxWorkers /\ input.maxWorkers <= input.NumCPU
               => output.workers = input.maxWorkers

====
